---- MODULE Spec2Model ----
(***************************************************************************)
(* Timer lifecycle engine of the Discord timer server:                     *)
(*   src/server/services/timerService.ts  (TimerService)                   *)
(*   src/server/storage.ts                (MemStorage)                     *)
(*   src/server/routes.ts                 (POST/DELETE /api/timers)        *)
(*                                                                         *)
(* Execution model.  The server runs on one Node.js event loop.  Every     *)
(* MemStorage method is an async function over an in-memory Map, so an     *)
(* `await storage.x()` resumes in the microtask queue of the macrotask     *)
(* that is running; no HTTP handler and no setTimeout callback can run in  *)
(* between.  The only await that suspends across macrotasks is the         *)
(* `await fetch(...)` of sendDiscordWebhook.  An action of this module is  *)
(* therefore one macrotask: the code from the start of a handler or        *)
(* callback (or from the arrival of a fetch response) up to the next       *)
(* `await fetch` or the end of the handler.                                *)
(*                                                                         *)
(* Time is in milliseconds, as Date.now() gives it; the clock advances in  *)
(* whole seconds.                                                          *)
(*                                                                         *)
(* Environment.  Clients send POST /api/timers and DELETE /api/timers/:id  *)
(* in any order, and initializeExistingTimers, a public method of the      *)
(* exported timerService, may be called at any time, also while Timers     *)
(* are armed (one call at a time).  A webhook endpoint answers 2xx,        *)
(* answers non-2xx, fails in transport, or never answers.                  *)
(*                                                                         *)
(* Observers.  A WebSocket client that connects to /ws is registered by    *)
(* addWebSocketClient; its socket later leaves the OPEN state and its      *)
(* "close" event removes it.  ws.send is a call into the ws library: it    *)
(* returns, or it throws.  An exception that leaves a route handler is     *)
(* caught by the handler's try/catch; one that leaves a setTimeout         *)
(* callback or initializeExistingTimers rejects a promise nobody handles,  *)
(* and the process (node:18, no unhandledRejection handler) exits.         *)
(* Specification Spec is the server with no observer connected; ObsSpec    *)
(* adds the observers.                                                     *)
(***************************************************************************)
EXTENDS Integers, Sequences, FiniteSets, TLC

\* ---- bounds of the model ------------------------------------------------
MaxCalls == 3
MaxDuration == 1
MaxTime == 1
MaxObservers == 2
MaxToolCalls == 2
MaxSeconds == 7261
MaxBatch == 2

\* ---- program constants --------------------------------------------------
MsPerSecond == 1000
SecondsPerMinute == 60
SecondsPerHour == 3600

TimerIds == 1..MaxCalls
Durations == 0..MaxDuration
NoTimer == [status |-> "absent"]
NoHandle == 0
Outcomes == {"ok", "non2xx", "error"}
Observers == 1..MaxObservers

VARIABLES
    now,             \* Date.now(), in milliseconds
    storeTimers,     \* MemStorage.timers: id -> Timer record, or NoTimer
    activities,      \* MemStorage.activities: timerId -> the types of the
                     \*       Activities of that Timer, in insertion order
    timers,          \* TimerService.timers: id -> setTimeout handle, or NoHandle
    timeouts,        \* the event loop's pending setTimeout callbacks
    webhookRequests, \* id -> number of fetch calls issued by sendDiscordWebhook
    broadcasts,      \* timerId -> the types of the events handed to
                     \*       TimerService.broadcast for that Timer, in order
    inflight,        \* id -> completeTimer calls (from a timeout callback or from
                     \*       the POST handler) suspended in `await fetch`
    resumeQueue,     \* initializeExistingTimers: the Timers of activeTimers not yet visited
    resumeWait,      \* initializeExistingTimers: the id whose completeTimer it awaits, or 0
    calls,           \* number of POST, DELETE and initializeExistingTimers calls
                     \*       and of WebSocket connections so far
    wsClients,       \* TimerService.wsClients: the registered sockets, in
                     \*       insertion order (the order Set.forEach visits them)
    readyState,      \* socket -> "NONE" (never connected), "OPEN", "CLOSING", "CLOSED"
    sendFails,       \* the sockets whose ws.send throws
    received,        \* socket -> the messages ws.send has accepted for it, in order
    exited,          \* TRUE once the process has exited on an unhandled rejection
    toolPending,     \* the testWebhook / sendCustomMessage calls suspended in
                     \*       `await fetch`, in call order
    toolResults,     \* the calls that have ended: arguments, fetch outcome and
                     \*       result, in the order they ended
    notFoundCalls,   \* the methods of timerService that have been called directly
                     \*       with an id no stored Timer has
    listed,          \* the body of the last answer of GET /api/timers: the listed
                     \*       Timers with their remainingMs (<<>> before any answer)
    formatted,       \* the last formatDuration call, as <<[seconds, text]>>
                     \*       (<<>> before any call)
    nullActivities,  \* MemStorage.activities: the types of the Activities
                     \*       whose timerId is null, in creation order
    batchQueue,      \* the entries the loop of a suspended POST
                     \*       /api/timers/batch has still to create
    batchWait        \* the Timer whose completeTimer that loop awaits
                     \*       (0: no batch handler is suspended)

vars == <<now, storeTimers, activities, timers, timeouts, webhookRequests,
          broadcasts, inflight, resumeQueue, resumeWait, calls,
          wsClients, readyState, sendFails, received, exited,
          toolPending, toolResults, notFoundCalls, listed, formatted,
          nullActivities, batchQueue, batchWait>>

\* The variables only POST /api/timers/batch changes.
batchVars == <<nullActivities, batchQueue, batchWait>>

\* The variables only the observers' own events change.
socketVars == <<wsClients, readyState, sendFails>>

\* The variables only testWebhook and sendCustomMessage calls change.
toolVars == <<toolPending, toolResults>>

\* The mutable state of MemStorage, TimerService and the event loop as one
\* record, so that the methods below compose as the code's calls do.
State ==
    [storeTimers |-> storeTimers, activities |-> activities, timers |-> timers,
     timeouts |-> timeouts,
     webhookRequests |-> webhookRequests, broadcasts |-> broadcasts,
     received |-> received,
     thrown |-> FALSE]      \* TRUE once an exception is propagating

\* ---- MemStorage ---------------------------------------------------------

\* randomUUID(): an id no stored Timer has (every POST takes one call, so
\* TimerIds never runs out).
FreshIds == {id \in TimerIds : storeTimers[id] = NoTimer}

NewId == CHOOSE id \in FreshIds : \A other \in FreshIds : id <= other

\* createTimer with the duration added to the clock unscaled (seconds taken
\* for milliseconds).
createTimerUnscaled(S, id, durationSeconds) ==
    [S EXCEPT !.storeTimers[id] =
        [status |-> "active",
         durationSeconds |-> durationSeconds,
         createdAt |-> now,
         expiresAt |-> now + durationSeconds,
         currentPings |-> 0]]

createTimer(S, id, durationSeconds) ==
    [S EXCEPT !.storeTimers[id] =
        [status |-> "active",
         durationSeconds |-> durationSeconds,
         createdAt |-> now,
         expiresAt |-> now + durationSeconds * MsPerSecond,
         currentPings |-> 0]]

getTimer(S, id) == S.storeTimers[id]

\* Array.from(this.timers.values()).filter(status === "active"), in insertion
\* order; ids are handed out in increasing order.
RECURSIVE ActiveFrom(_, _)
ActiveFrom(S, id) ==
    IF id > MaxCalls THEN <<>>
    ELSE IF S.storeTimers[id].status = "active"
         THEN <<id>> \o ActiveFrom(S, id + 1)
         ELSE ActiveFrom(S, id + 1)

\* getActiveTimers without its status filter: every stored Timer.
getActiveTimersUnfiltered(S) ==
    ActiveFrom([S EXCEPT !.storeTimers =
                   [id \in TimerIds |->
                       IF @[id] = NoTimer THEN NoTimer
                       ELSE [@[id] EXCEPT !.status = "active"]]], 1)

getActiveTimers(S) == ActiveFrom(S, 1)

updateTimerStatus(S, id, status) ==
    IF S.storeTimers[id] # NoTimer
    THEN [S EXCEPT !.storeTimers[id].status = status]
    ELSE S

\* createActivity keeping only the newest Activity of the Timer.
createActivityReplacing(S, timerId, type) ==
    [S EXCEPT !.activities[timerId] = <<type>>]

createActivity(S, timerId, type) ==
    [S EXCEPT !.activities[timerId] = Append(@, type)]

\* ---- TimerService -------------------------------------------------------

\* this.wsClients.forEach(ws => { if (ws.readyState === OPEN) ws.send(message) })
\* over the sockets of `clients`: a send that throws ends the forEach.
RECURSIVE forEachSend(_, _, _)
forEachSend(S, clients, message) ==
    IF clients = <<>> THEN S
    ELSE IF readyState[Head(clients)] # "OPEN"
         THEN forEachSend(S, Tail(clients), message)
         ELSE IF Head(clients) \in sendFails
              THEN [S EXCEPT !.thrown = TRUE]
              ELSE forEachSend([S EXCEPT !.received[Head(clients)] = Append(@, message)],
                               Tail(clients), message)

\* broadcast that sends the first event of the Timer again before each later
\* event (a replay of what was published).
broadcastReplaying(S, type, timerId) ==
    forEachSend(
        IF S.broadcasts[timerId] = <<>>
        THEN [S EXCEPT !.broadcasts[timerId] = Append(@, type)]
        ELSE forEachSend([S EXCEPT !.broadcasts[timerId] = Append(@, type)],
                         wsClients,
                         [type |-> S.broadcasts[timerId][1], timerId |-> timerId]),
        wsClients, [type |-> type, timerId |-> timerId])

broadcast(S, type, timerId) ==
    forEachSend([S EXCEPT !.broadcasts[timerId] = Append(@, type)],
                wsClients, [type |-> type, timerId |-> timerId])

\* clearTimeout(handle): no effect on a handle whose callback already ran.
clearTimeout(S, handle) ==
    [S EXCEPT !.timeouts = {t \in @ : t.handle # handle}]

\* "Clean up timeout" of completeTimer and cancelTimer.
cleanUpTimeout(S, timerId) ==
    IF S.timers[timerId] # NoHandle
    THEN [clearTimeout(S, S.timers[timerId]) EXCEPT !.timers[timerId] = NoHandle]
    ELSE S

\* completeTimerBegin without its updateTimerStatus.
completeTimerBeginNoStatus(S, timerId) ==
    IF getTimer(S, timerId) = NoTimer
    THEN S
    ELSE [S EXCEPT !.webhookRequests[timerId] = @ + 1]

\* completeTimer up to `await fetch`: read the Timer, write the status, build
\* the payload and issue the request.  Returns S unchanged when the Timer is
\* absent (and then completeTimer has returned).
completeTimerBegin(S, timerId) ==
    IF getTimer(S, timerId) = NoTimer
    THEN S
    ELSE [updateTimerStatus(S, timerId, "completed")
            EXCEPT !.webhookRequests[timerId] = @ + 1]

\* TRUE when completeTimer(timerId) suspends in `await fetch`.
completeTimerSuspends(S, timerId) == getTimer(S, timerId) # NoTimer

\* sendDiscordWebhookEnd that takes any HTTP response for a success and
\* only a transport error for a failure (no `response.ok` test).
sendDiscordWebhookEndAnyResponse(S, timerId, outcome) ==
    IF outcome \in {"ok", "non2xx"}
    THEN [S EXCEPT !.activities[timerId] = Append(@, "webhook_sent")]
    ELSE [S EXCEPT !.activities[timerId] = Append(@, "webhook_failed")]

\* sendDiscordWebhookEnd that issues the request once more after a failed
\* delivery.
sendDiscordWebhookEndRetrying(S, timerId, outcome) ==
    IF outcome = "ok"
    THEN createActivity(S, timerId, "webhook_sent")
    ELSE [createActivity(S, timerId, "webhook_failed")
            EXCEPT !.webhookRequests[timerId] = @ + 1]

\* sendDiscordWebhook from the fetch response on.
sendDiscordWebhookEnd(S, timerId, outcome) ==
    IF outcome = "ok"
    THEN createActivity(S, timerId, "webhook_sent")
    ELSE createActivity(S, timerId, "webhook_failed")

\* completeTimerEnd with a sendDiscordWebhook that lets a failed delivery
\* out as an exception: completeTimer stops there.
completeTimerEndFailureThrows(S, timerId, outcome) ==
    IF outcome = "ok"
    THEN broadcast(
            cleanUpTimeout(
                createActivity(createActivity(S, timerId, "webhook_sent"),
                               timerId, "completed"),
                timerId),
            "timer_completed", timerId)
    ELSE createActivity(S, timerId, "webhook_failed")

\* completeTimerEnd that appends the completed Activity and broadcasts
\* before it handles the webhook response.
completeTimerEndAnnouncesFirst(S, timerId, outcome) ==
    sendDiscordWebhookEnd(
        cleanUpTimeout(
            broadcast(createActivity(S, timerId, "completed"),
                      "timer_completed", timerId),
            timerId),
        timerId, outcome)

\* completeTimer from the fetch response to its return.
completeTimerEnd(S, timerId, outcome) ==
    broadcast(
        cleanUpTimeout(
            createActivity(sendDiscordWebhookEnd(S, timerId, outcome),
                           timerId, "completed"),
            timerId),
        "timer_completed", timerId)

\* cancelTimer without its `if (!timer) return`.
cancelTimerUnchecked(S, timerId) ==
    broadcast(
        cleanUpTimeout(
            createActivity(updateTimerStatus(S, timerId, "cancelled"),
                           timerId, "cancelled"),
            timerId),
        "timer_cancelled", timerId)

cancelTimer(S, timerId) ==
    IF getTimer(S, timerId) = NoTimer
    THEN S
    ELSE broadcast(
            cleanUpTimeout(
                createActivity(updateTimerStatus(S, timerId, "cancelled"),
                               timerId, "cancelled"),
                timerId),
            "timer_cancelled", timerId)

\* startTimerFires with `timeUntilExpiry < 0` for `timeUntilExpiry <= 0`.
startTimerFiresStrict(S, timerId) ==
    /\ S.storeTimers[timerId] # NoTimer
    /\ S.storeTimers[timerId].expiresAt - now < 0

\* TRUE when startTimer(timerId) takes the `timeUntilExpiry <= 0` branch.
startTimerFires(S, timerId) ==
    /\ getTimer(S, timerId) # NoTimer
    /\ getTimer(S, timerId).expiresAt - now <= 0

\* The Timeout object setTimeout returns: one that is neither pending nor
\* held by this.timers.
UsedHandles(S) ==
    {t.handle : t \in S.timeouts} \cup {S.timers[id] : id \in TimerIds}

NewHandle(S) ==
    CHOOSE h \in 1..(Cardinality(UsedHandles(S)) + 1) : h \notin UsedHandles(S)

\* setTimeout(callback, timeUntilExpiry): the callback is due at expiresAt.
setTimeout(S, handle, timerId) ==
    [S EXCEPT !.timeouts = @ \cup {[handle |-> handle,
                                    timerId |-> timerId,
                                    due |-> getTimer(S, timerId).expiresAt]}]

\* startTimerArm without its broadcast.
startTimerArmUnannounced(S, timerId) ==
    createActivity(
        [setTimeout(S, NewHandle(S), timerId)
            EXCEPT !.timers[timerId] = NewHandle(S)],
        timerId, "created")

\* The setTimeout branch of startTimer.
startTimerArm(S, timerId) ==
    broadcast(
        createActivity(
            [setTimeout(S, NewHandle(S), timerId)
                EXCEPT !.timers[timerId] = NewHandle(S)],
            timerId, "created"),
        "timer_created", timerId)

\* startTimer up to its return or up to the `await fetch` of the
\* completeTimer it awaits.
startTimer(S, timerId) ==
    IF getTimer(S, timerId) = NoTimer THEN S
    ELSE IF startTimerFires(S, timerId) THEN completeTimerBegin(S, timerId)
    ELSE startTimerArm(S, timerId)

\* TRUE when startTimer(timerId) suspends in `await fetch`.
startTimerSuspends(S, timerId) ==
    startTimerFires(S, timerId) /\ completeTimerSuspends(S, timerId)

\* The for loop of initializeExistingTimers over the Timers left in `queue`,
\* up to its end, up to the first startTimer that suspends, or up to an
\* exception.
RECURSIVE resumeLoop(_, _)
resumeLoop(S, queue) ==
    IF queue = <<>> \/ S.thrown
    THEN [state |-> S, queue |-> <<>>, wait |-> 0]
    ELSE IF startTimerSuspends(S, Head(queue))
         THEN [state |-> startTimer(S, Head(queue)),
               queue |-> Tail(queue), wait |-> Head(queue)]
         ELSE resumeLoop(startTimer(S, Head(queue)), Tail(queue))

\* ---- the state machine --------------------------------------------------

Init ==
    /\ now = 0
    /\ storeTimers = [id \in TimerIds |-> NoTimer]
    /\ activities = [id \in TimerIds |-> <<>>]
    /\ timers = [id \in TimerIds |-> NoHandle]
    /\ timeouts = {}
    /\ webhookRequests = [id \in TimerIds |-> 0]
    /\ broadcasts = [id \in TimerIds |-> <<>>]
    /\ inflight = [id \in TimerIds |-> 0]
    /\ resumeQueue = <<>>
    /\ resumeWait = 0
    /\ calls = 0
    /\ wsClients = <<>>
    /\ readyState = [ws \in Observers |-> "NONE"]
    /\ sendFails = {}
    /\ received = [ws \in Observers |-> <<>>]
    /\ exited = FALSE
    /\ toolPending = <<>>
    /\ toolResults = <<>>
    /\ notFoundCalls = {}
    /\ listed = <<>>
    /\ formatted = <<>>
    /\ nullActivities = <<>>
    /\ batchQueue = <<>>
    /\ batchWait = 0

\* Writes the fields of a State record back to the variables.
Commit(S) ==
    /\ storeTimers' = S.storeTimers
    /\ activities' = S.activities
    /\ timers' = S.timers
    /\ timeouts' = S.timeouts
    /\ webhookRequests' = S.webhookRequests
    /\ broadcasts' = S.broadcasts
    /\ received' = S.received

\* An exception leaves a setTimeout callback or initializeExistingTimers:
\* the rejection is unhandled and the process exits, and with it the event
\* loop, its pending timeouts and every suspended call.
CommitOrExit(S, nextInflight, nextQueue, nextWait) ==
    IF S.thrown
    THEN /\ Commit([S EXCEPT !.timeouts = {}])
         /\ inflight' = [id \in TimerIds |-> 0]
         /\ resumeQueue' = <<>>
         /\ resumeWait' = 0
         /\ exited' = TRUE
    ELSE /\ Commit(S)
         /\ inflight' = nextInflight
         /\ resumeQueue' = nextQueue
         /\ resumeWait' = nextWait
         /\ exited' = exited

\* TRUE when the completeTimer(timerId) suspended in `await fetch` was called
\* by startTimer for the POST handler (the Timer had expired at its
\* creation and was never armed), FALSE when a setTimeout callback called it.
awaitedByRoute(S, timerId) ==
    getTimer(S, timerId).expiresAt - getTimer(S, timerId).createdAt <= 0

\* The clock advances by one second.
Tick ==
    /\ ~exited
    /\ now < MaxTime * MsPerSecond
    /\ now' = now + MsPerSecond
    /\ UNCHANGED <<storeTimers, activities, timers, timeouts, webhookRequests,
                   broadcasts, inflight, resumeQueue, resumeWait, calls,
                   socketVars, received, exited, toolVars, notFoundCalls, listed, formatted, batchVars>>

\* POST /api/timers with a body that insertTimerSchema accepts:
\* storage.createTimer, then startTimer; the handler's catch answers 400 to
\* an exception.
PostTimer(durationSeconds) ==
    /\ ~exited
    /\ calls < MaxCalls
    /\ calls' = calls + 1
    /\ now + durationSeconds * MsPerSecond <= MaxTime * MsPerSecond
    /\ LET id == NewId
           created == createTimer(State, id, durationSeconds)
       IN /\ Commit(startTimer(created, id))
          /\ inflight' = IF startTimerSuspends(created, id)
                         THEN [inflight EXCEPT ![id] = @ + 1]
                         ELSE inflight
    /\ UNCHANGED <<now, resumeQueue, resumeWait, socketVars, exited, toolVars, notFoundCalls, listed, formatted, batchVars>>

\* TimeoutFires with a webhook call that blocks the event loop: no callback
\* is dispatched while a fetch is pending.
TimeoutFiresBlocking(t) ==
    /\ ~exited
    /\ t \in timeouts
    /\ t.due <= now
    /\ resumeWait = 0
    /\ \A id \in TimerIds : inflight[id] = 0
    /\ LET popped == [State EXCEPT !.timeouts = @ \ {t}]
       IN /\ Commit(completeTimerBegin(popped, t.timerId))
          /\ inflight' = IF completeTimerSuspends(popped, t.timerId)
                         THEN [inflight EXCEPT ![t.timerId] = @ + 1]
                         ELSE inflight
    /\ UNCHANGED <<now, resumeQueue, resumeWait, calls, socketVars, exited, toolVars, notFoundCalls, listed, formatted, batchVars>>

\* The event loop runs the callback of a due setTimeout:
\* `async () => { await this.completeTimer(timerId) }`.
TimeoutFires(t) ==
    /\ ~exited
    /\ t \in timeouts
    /\ t.due <= now
    /\ LET popped == [State EXCEPT !.timeouts = @ \ {t}]
       IN /\ Commit(completeTimerBegin(popped, t.timerId))
          /\ inflight' = IF completeTimerSuspends(popped, t.timerId)
                         THEN [inflight EXCEPT ![t.timerId] = @ + 1]
                         ELSE inflight
    /\ UNCHANGED <<now, resumeQueue, resumeWait, calls, socketVars, exited, toolVars, notFoundCalls, listed, formatted, batchVars>>

\* The fetch of a completeTimer called from a timeout callback or from the
\* POST handler settles; completeTimer runs to its end.  An exception goes
\* to the POST handler's catch, or out of the setTimeout callback.
WebhookSettles(timerId, outcome) ==
    /\ ~exited
    /\ inflight[timerId] > 0
    /\ LET done == completeTimerEnd(State, timerId, outcome)
       IN CommitOrExit([done EXCEPT !.thrown = @ /\ ~awaitedByRoute(State, timerId)],
                       [inflight EXCEPT ![timerId] = @ - 1],
                       resumeQueue, resumeWait)
    /\ UNCHANGED <<now, calls, socketVars, toolVars, notFoundCalls, listed, formatted, batchVars>>

\* DELETE /api/timers/:id; the handler's catch answers 500 to an exception.
DeleteTimer(timerId) ==
    /\ ~exited
    /\ calls < MaxCalls
    /\ calls' = calls + 1
    /\ Commit(cancelTimer(State, timerId))
    /\ UNCHANGED <<now, inflight, resumeQueue, resumeWait, socketVars, exited, toolVars, notFoundCalls, listed, formatted, batchVars>>

\* A call of initializeExistingTimers: getActiveTimers, then the loop up to
\* its first suspension.
Resume ==
    /\ ~exited
    /\ calls < MaxCalls
    /\ resumeWait = 0
    /\ calls' = calls + 1
    /\ LET run == resumeLoop(State, getActiveTimers(State))
       IN CommitOrExit(run.state, inflight, run.queue, run.wait)
    /\ UNCHANGED <<now, socketVars, toolVars, notFoundCalls, listed, formatted, batchVars>>

\* The fetch of the completeTimer that initializeExistingTimers awaits
\* settles; completeTimer and startTimer return and the loop goes on.
ResumeWebhookSettles(outcome) ==
    /\ ~exited
    /\ resumeWait # 0
    /\ LET run == resumeLoop(completeTimerEnd(State, resumeWait, outcome),
                             resumeQueue)
       IN CommitOrExit(run.state, inflight, run.queue, run.wait)
    /\ UNCHANGED <<now, calls, socketVars, toolVars, notFoundCalls, listed, formatted, batchVars>>

Next ==
    \/ Tick
    \/ \E d \in Durations : PostTimer(d)
    \/ \E t \in timeouts : TimeoutFires(t)
    \/ \E id \in TimerIds, o \in Outcomes : WebhookSettles(id, o)
    \/ \E id \in TimerIds : DeleteTimer(id)
    \/ Resume
    \/ \E o \in Outcomes : ResumeWebhookSettles(o)

Spec == Init /\ [][Next]_vars

\* ---- the observers ------------------------------------------------------

\* A "close" listener that leaves the Set as it is.
setDeleteNoOp(clients, ws) == clients

\* Set.delete(ws) on the insertion-ordered Set.
RECURSIVE setDelete(_, _)
setDelete(clients, ws) ==
    IF clients = <<>> THEN <<>>
    ELSE IF Head(clients) = ws THEN Tail(clients)
         ELSE <<Head(clients)>> \o setDelete(Tail(clients), ws)

\* wss.on("connection"): a new socket, OPEN, is handed to addWebSocketClient.
Connect(ws) ==
    /\ ~exited
    /\ calls < MaxCalls
    /\ calls' = calls + 1
    /\ readyState[ws] = "NONE"
    /\ \A other \in Observers : readyState[other] = "NONE" => ws <= other
    /\ wsClients' = Append(wsClients, ws)
    /\ readyState' = [readyState EXCEPT ![ws] = "OPEN"]
    /\ UNCHANGED <<now, storeTimers, activities, timers, timeouts, webhookRequests,
                   broadcasts, inflight, resumeQueue, resumeWait,
                   sendFails, received, exited, toolVars, notFoundCalls, listed, formatted, batchVars>>

\* The closing handshake of a socket starts: it is no longer OPEN, and its
\* "close" event has not been emitted yet.
SocketClosing(ws) ==
    /\ ~exited
    /\ readyState[ws] = "OPEN"
    /\ readyState' = [readyState EXCEPT ![ws] = "CLOSING"]
    /\ sendFails' = sendFails \ {ws}
    /\ UNCHANGED <<now, storeTimers, activities, timers, timeouts, webhookRequests,
                   broadcasts, inflight, resumeQueue, resumeWait, calls,
                   wsClients, received, exited, toolVars, notFoundCalls, listed, formatted, batchVars>>

\* The "close" event of a registered socket: the listener of
\* addWebSocketClient deletes it from wsClients.
CloseEvent(ws) ==
    /\ ~exited
    /\ readyState[ws] \in {"OPEN", "CLOSING"}
    /\ readyState' = [readyState EXCEPT ![ws] = "CLOSED"]
    /\ wsClients' = setDelete(wsClients, ws)
    /\ sendFails' = sendFails \ {ws}
    /\ UNCHANGED <<now, storeTimers, activities, timers, timeouts, webhookRequests,
                   broadcasts, inflight, resumeQueue, resumeWait, calls,
                   received, exited, toolVars, notFoundCalls, listed, formatted, batchVars>>

\* An OPEN socket gets into a condition in which ws.send throws.
SendBreaks(ws) ==
    /\ ~exited
    /\ readyState[ws] = "OPEN"
    /\ ws \notin sendFails
    /\ sendFails' = sendFails \cup {ws}
    /\ UNCHANGED <<now, storeTimers, activities, timers, timeouts, webhookRequests,
                   broadcasts, inflight, resumeQueue, resumeWait, calls,
                   wsClients, readyState, received, exited, toolVars, notFoundCalls, listed, formatted, batchVars>>

ObsNext ==
    \/ Next
    \/ \E ws \in Observers : Connect(ws)
    \/ \E ws \in Observers : SocketClosing(ws)
    \/ \E ws \in Observers : CloseEvent(ws)
    \/ \E ws \in Observers : SendBreaks(ws)

\* The server with WebSocket observers.
ObsSpec == Init /\ [][ObsNext]_vars

\* ---- calls with an unknown id ---------------------------------------------

\* The methods of the exported timerService that look their Timer up first
\* and return if it is absent.
LookupMethods == {"completeTimer", "cancelTimer"}

\* completeTimer(timerId) or cancelTimer(timerId), called on the exported
\* timerService with an id that no stored Timer has.
NotFoundCall(method, timerId) ==
    /\ ~exited
    /\ calls < MaxCalls
    /\ calls' = calls + 1
    /\ getTimer(State, timerId) = NoTimer
    /\ Commit(IF method = "completeTimer"
              THEN completeTimerBegin(State, timerId)
              ELSE cancelTimer(State, timerId))
    /\ inflight' = IF method = "completeTimer" /\ completeTimerSuspends(State, timerId)
                   THEN [inflight EXCEPT ![timerId] = @ + 1]
                   ELSE inflight
    /\ notFoundCalls' = notFoundCalls \cup {method}
    /\ UNCHANGED <<now, resumeQueue, resumeWait, socketVars, exited, toolVars, listed, formatted, batchVars>>

NotFoundNext ==
    \/ Next
    \/ \E ws \in Observers : Connect(ws)
    \/ \E method \in LookupMethods, timerId \in TimerIds : NotFoundCall(method, timerId)

\* The server with observers that stay connected and with direct calls for
\* unknown ids.
NotFoundSpec == Init /\ [][NotFoundNext]_vars

\* ---- GET /api/timers ------------------------------------------------------

\* Math.max(a, b).
max(a, b) == IF a >= b THEN a ELSE b

\* getRemainingTime without Math.max: the signed difference.
getRemainingTimeSigned(timer) == timer.expiresAt - now

getRemainingTime(timer) == max(0, timer.expiresAt - now)

\* activeTimers.map(timer => ({...timer, remainingMs: getRemainingTime(timer)})).
RECURSIVE withRemaining(_, _)
withRemaining(S, ids) ==
    IF ids = <<>> THEN <<>>
    ELSE <<[id |-> Head(ids),
            status |-> getTimer(S, Head(ids)).status,
            expiresAt |-> getTimer(S, Head(ids)).expiresAt,
            remainingMs |-> getRemainingTime(getTimer(S, Head(ids)))]>>
         \o withRemaining(S, Tail(ids))

\* GET /api/timers: storage.getActiveTimers, the remainingMs annotation,
\* res.json.
GetTimers ==
    /\ ~exited
    /\ calls < MaxCalls
    /\ calls' = calls + 1
    /\ listed' = withRemaining(State, getActiveTimers(State))
    /\ UNCHANGED <<now, storeTimers, activities, timers, timeouts, webhookRequests,
                   broadcasts, inflight, resumeQueue, resumeWait,
                   socketVars, received, exited, toolVars, notFoundCalls, formatted, batchVars>>

ListNext ==
    \/ Next
    \/ GetTimers

\* The server with clients that also list the active Timers.
ListSpec == Init /\ [][ListNext]_vars

\* ---- POST /api/timers/batch ---------------------------------------------
\* Two handlers are registered for the path; Express runs the first, which
\* answers every request, so the second never runs.

\* An entry of the request's `timers` array: one insertTimerSchema accepts,
\* with its durationSeconds, or one it rejects (a missing field, a
\* durationSeconds that is no integer).
BatchEntries ==
    {[accepted |-> TRUE, durationSeconds |-> d] : d \in Durations}
        \cup {[accepted |-> FALSE, durationSeconds |-> 0]}

Batches ==
    UNION {[1..n -> BatchEntries] : n \in 0..MaxBatch}

\* insertBatchTimersSchema.parse(req.body) returns (does not throw).
batchParses(entries) ==
    \A i \in 1..Len(entries) : entries[i].accepted

\* randomUUID() inside a call: an id no Timer of S has.
NewIdIn(S) ==
    CHOOSE id \in TimerIds :
        /\ S.storeTimers[id] = NoTimer
        /\ \A other \in TimerIds : S.storeTimers[other] = NoTimer => id <= other

\* The for loop of the batch handler over `entries`, up to its end, up to
\* the first startTimer that suspends, or up to an exception.
RECURSIVE batchLoop(_, _)
batchLoop(S, entries) ==
    IF entries = <<>> \/ S.thrown
    THEN [state |-> S, queue |-> <<>>, wait |-> 0]
    ELSE LET id == NewIdIn(S)
             created == createTimer(S, id, Head(entries).durationSeconds)
         IN IF startTimerSuspends(created, id)
            THEN [state |-> startTimer(created, id),
                  queue |-> Tail(entries), wait |-> id]
            ELSE batchLoop(startTimer(created, id), Tail(entries))

\* What follows the loop: the batch_created Activity, unless the handler
\* is suspended or an exception went to its catch.
batchCreated(run) ==
    IF run.wait = 0 /\ ~run.state.thrown
    THEN Append(nullActivities, "batch_created")
    ELSE nullActivities

\* POST /api/timers/batch with a body whose `timers` is an array; the
\* handler's catch answers 400 to an exception.
PostBatch(entries) ==
    /\ ~exited
    /\ batchWait = 0
    /\ calls + max(1, Len(entries)) <= MaxCalls
    /\ calls' = calls + max(1, Len(entries))
    /\ \A i \in 1..Len(entries) :
           now + entries[i].durationSeconds * MsPerSecond <= MaxTime * MsPerSecond
    /\ IF ~batchParses(entries)
       THEN UNCHANGED <<storeTimers, activities, timers, timeouts,
                        webhookRequests, broadcasts, received, batchVars>>
       ELSE LET run == batchLoop(State, entries)
            IN /\ Commit(run.state)
               /\ batchQueue' = run.queue
               /\ batchWait' = run.wait
               /\ nullActivities' = batchCreated(run)
    /\ UNCHANGED <<now, inflight, resumeQueue, resumeWait, socketVars, exited,
                   toolVars, notFoundCalls, listed, formatted>>

\* The fetch of the completeTimer that the batch handler awaits settles;
\* completeTimer and startTimer return and the loop goes on.
BatchWebhookSettles(outcome) ==
    /\ ~exited
    /\ batchWait # 0
    /\ LET run == batchLoop(completeTimerEnd(State, batchWait, outcome),
                            batchQueue)
       IN /\ Commit(run.state)
          /\ batchQueue' = run.queue
          /\ batchWait' = run.wait
          /\ nullActivities' = batchCreated(run)
    /\ UNCHANGED <<now, inflight, resumeQueue, resumeWait, calls, socketVars,
                   exited, toolVars, notFoundCalls, listed, formatted>>

BatchNext ==
    \/ Next
    \/ \E entries \in Batches : PostBatch(entries)
    \/ \E outcome \in Outcomes : BatchWebhookSettles(outcome)

\* The server with batch creation, no observer connected.
BatchSpec == Init /\ [][BatchNext]_vars

\* ---- formatDuration ------------------------------------------------------
\* A JavaScript string is modelled as the sequence of its characters.

DigitChars == <<"0", "1", "2", "3", "4", "5", "6", "7", "8", "9">>

\* `${n}` for an integer n >= 0: its decimal digits, no leading zero.
RECURSIVE decimal(_)
decimal(n) ==
    IF n < 10 THEN <<DigitChars[n + 1]>>
    ELSE decimal(n \div 10) \o <<DigitChars[(n % 10) + 1]>>

\* formatDuration that leaves the seconds out once there are hours.
formatDurationNoSecondsWithHours(seconds) ==
    LET hours == seconds \div SecondsPerHour
        minutes == (seconds % SecondsPerHour) \div SecondsPerMinute
        secs == seconds % SecondsPerMinute
    IN IF hours > 0
       THEN decimal(hours) \o <<"h", " ">> \o decimal(minutes) \o <<"m">>
       ELSE IF minutes > 0
            THEN decimal(minutes) \o <<"m", " ">> \o decimal(secs) \o <<"s">>
            ELSE decimal(secs) \o <<"s">>

\* formatDuration with the minutes taken from the whole duration (no
\* `% 3600`).
formatDurationTotalMinutes(seconds) ==
    LET hours == seconds \div SecondsPerHour
        minutes == seconds \div SecondsPerMinute
        secs == seconds % SecondsPerMinute
    IN IF hours > 0
       THEN decimal(hours) \o <<"h", " ">> \o decimal(minutes) \o <<"m", " ">>
                \o decimal(secs) \o <<"s">>
       ELSE IF minutes > 0
            THEN decimal(minutes) \o <<"m", " ">> \o decimal(secs) \o <<"s">>
            ELSE decimal(secs) \o <<"s">>

formatDuration(seconds) ==
    LET hours == seconds \div SecondsPerHour
        minutes == (seconds % SecondsPerHour) \div SecondsPerMinute
        secs == seconds % SecondsPerMinute
    IN IF hours > 0
       THEN decimal(hours) \o <<"h", " ">> \o decimal(minutes) \o <<"m", " ">>
                \o decimal(secs) \o <<"s">>
       ELSE IF minutes > 0
            THEN decimal(minutes) \o <<"m", " ">> \o decimal(secs) \o <<"s">>
            ELSE decimal(secs) \o <<"s">>

\* A call of formatDuration with a whole number of seconds.  The function
\* reads and writes no state, so one call per behaviour covers every call.
FormatCall(seconds) ==
    /\ ~exited
    /\ formatted = <<>>
    /\ formatted' = <<[seconds |-> seconds, text |-> formatDuration(seconds)]>>
    /\ UNCHANGED <<now, storeTimers, activities, timers, timeouts, webhookRequests,
                   broadcasts, inflight, resumeQueue, resumeWait, calls,
                   socketVars, received, exited, toolVars, notFoundCalls, listed,
                   batchVars>>

FormatNext == \E seconds \in 0..MaxSeconds : FormatCall(seconds)

\* formatDuration applied to every duration up to MaxSeconds.
FormatSpec == Init /\ [][FormatNext]_vars

\* ---- testWebhook and sendCustomMessage ----------------------------------

\* How an async method ends: it returns a boolean, or it rejects.
Returns(value) == [raised |-> FALSE, value |-> value]
Raises == [raised |-> TRUE, value |-> FALSE]

\* Response.ok of a fetch that resolved.
responseOk(outcome) == outcome = "ok"

\* testWebhook without its try/catch: a rejected fetch rejects the call.
testWebhookNoCatch(outcome) ==
    IF outcome = "error" THEN Raises ELSE Returns(responseOk(outcome))

\* testWebhook from the end of its fetch: `return response.ok` in the try,
\* `return false` in the catch.
testWebhook(outcome) ==
    IF outcome = "error" THEN Returns(FALSE) ELSE Returns(responseOk(outcome))

\* sendCustomMessage from the end of its fetch; pingEveryone only changes
\* the content of the payload.
sendCustomMessage(outcome, pingEveryone) ==
    IF outcome = "error" THEN Returns(FALSE) ELSE Returns(responseOk(outcome))

ToolMethods == {"testWebhook", "sendCustomMessage"}

\* A call of testWebhook(url) or sendCustomMessage(url, message,
\* pingEveryone) builds its payload and suspends in `await fetch`.
ToolCall(method, pingEveryone) ==
    /\ ~exited
    /\ Len(toolPending) + Len(toolResults) < MaxToolCalls
    /\ method = "testWebhook" => ~pingEveryone
    /\ toolPending' = Append(toolPending,
                             [method |-> method, pingEveryone |-> pingEveryone])
    /\ UNCHANGED <<now, storeTimers, activities, timers, timeouts, webhookRequests,
                   broadcasts, inflight, resumeQueue, resumeWait, calls,
                   socketVars, received, exited, toolResults,
                   notFoundCalls, listed, formatted, batchVars>>

\* The fetch of the i-th suspended call settles and the call ends.
ToolSettles(i, outcome) ==
    /\ ~exited
    /\ i \in 1..Len(toolPending)
    /\ toolPending' = SubSeq(toolPending, 1, i - 1)
                          \o SubSeq(toolPending, i + 1, Len(toolPending))
    /\ toolResults' =
          Append(toolResults,
                 [method |-> toolPending[i].method,
                  pingEveryone |-> toolPending[i].pingEveryone,
                  outcome |-> outcome,
                  result |-> IF toolPending[i].method = "testWebhook"
                             THEN testWebhook(outcome)
                             ELSE sendCustomMessage(outcome,
                                                    toolPending[i].pingEveryone)])
    /\ UNCHANGED <<now, storeTimers, activities, timers, timeouts, webhookRequests,
                   broadcasts, inflight, resumeQueue, resumeWait, calls,
                   socketVars, received, exited, notFoundCalls, listed, formatted, batchVars>>

ToolsNext ==
    \/ \E method \in ToolMethods, pingEveryone \in BOOLEAN :
          ToolCall(method, pingEveryone)
    \/ \E i \in 1..MaxToolCalls, outcome \in Outcomes : ToolSettles(i, outcome)

\* The webhook tools of the service, called in any order.
ToolsSpec == Init /\ [][ToolsNext]_vars

\* The event loop keeps running: the clock advances and every due setTimeout
\* callback is eventually dispatched.  Nothing obliges a webhook endpoint to
\* answer, and nothing obliges a client to send a request.
FairSpec ==
    /\ Spec
    /\ WF_vars(Tick)
    /\ \A id \in TimerIds :
          WF_vars(\E t \in timeouts : t.timerId = id /\ TimeoutFires(t))

\* ---- vocabulary of the properties ---------------------------------------

Range(seq) == {seq[i] : i \in 1..Len(seq)}

\* Number of entries of the log `seq` that are `type`.
Count(seq, type) == Cardinality({i \in 1..Len(seq) : seq[i] = type})

Exists(id) == storeTimers[id] # NoTimer

Status(id) == storeTimers[id].status

\* The pending fire events of a Timer.
PendingOf(id) == {t \in timeouts : t.timerId = id}

\* A completeTimer(id) is suspended in its webhook call.
FireInFlight(id) == inflight[id] > 0 \/ resumeWait = id

\* ---- C1 ------------------------------------------------------------------
\* C1: a Timer's status changes only from active to completed or from
\* active to cancelled; a completed or cancelled status never changes
\* again.  (A Timer is created active; a POST whose duration has already
\* expired creates it and fires it in the same macrotask.)
C1_StatusTransitions ==
    [][\A id \in TimerIds :
          Status(id)' # Status(id) =>
              \/ Status(id) = "absent" /\ Status(id)' \in {"active", "completed"}
              \/ Status(id) = "active" /\ Status(id)' \in {"completed", "cancelled"}]_vars

\* ---- C2 ------------------------------------------------------------------
\* C2: once a Timer's fire has fully executed (status completed, completed
\* Activity appended, no fire of it in flight), a cancel leaves the status
\* completed, appends no cancelled Activity and broadcasts no
\* timer_cancelled event.
FullyFired(id) ==
    /\ Status(id) = "completed"
    /\ "completed" \in Range(activities[id])
    /\ ~FireInFlight(id)

C2_CancelAfterFireIsNoOp ==
    [][\A id \in TimerIds :
          FullyFired(id) =>
              /\ Status(id)' = "completed"
              /\ Count(activities'[id], "cancelled") = Count(activities[id], "cancelled")
              /\ Count(broadcasts'[id], "timer_cancelled")
                    = Count(broadcasts[id], "timer_cancelled")]_vars

\* ---- C3 ------------------------------------------------------------------
\* C3: a fire that starts on a Timer whose status is cancelled is a no-op:
\* the status stays cancelled, no webhook request is issued, and no
\* completeTimer is left suspended that would append a completed Activity
\* or broadcast timer_completed.
C3_FireAfterCancelIsNoOp ==
    [][\A id \in TimerIds :
          Status(id) = "cancelled" =>
              /\ Status(id)' = "cancelled"
              /\ webhookRequests'[id] = webhookRequests[id]
              /\ inflight'[id] <= inflight[id]
              /\ (resumeWait' = id => resumeWait = id)]_vars

\* ---- C4 ------------------------------------------------------------------
\* C4: while a fire of a Timer is suspended in its webhook call, having
\* written status completed, a cancel of that Timer leaves the status
\* completed and appends no cancelled Activity.
C4_CancelDuringFireKeepsCompleted ==
    [][\A id \in TimerIds :
          (Status(id) = "completed" /\ FireInFlight(id)) =>
              /\ Status(id)' = "completed"
              /\ Count(activities'[id], "cancelled")
                    = Count(activities[id], "cancelled")]_vars

\* ---- C5 ------------------------------------------------------------------
\* C5: there is never more than one pending fire event for one Timer id.
C5_AtMostOnePendingFire ==
    \A id \in TimerIds : Cardinality(PendingOf(id)) <= 1

\* ---- C6 ------------------------------------------------------------------
\* C6: a Timer cancelled before its expiry has status cancelled and no
\* pending fire event, and from then on it stays cancelled, never gets a
\* pending fire event and never has a webhook request, a completed Activity
\* or a timer_completed broadcast.
CancelledBeforeExpiry(id) ==
    /\ Exists(id)
    /\ "cancelled" \in Range(activities[id])
    /\ now < storeTimers[id].expiresAt

CancelledForGood(id) ==
    /\ Status(id) = "cancelled"
    /\ PendingOf(id) = {}
    /\ webhookRequests[id] = 0
    /\ "completed" \notin Range(activities[id])
    /\ "timer_completed" \notin Range(broadcasts[id])

C6_CancelBeforeExpiryIsFinal ==
    /\ [](\A id \in TimerIds : CancelledBeforeExpiry(id) => CancelledForGood(id))
    /\ [][\A id \in TimerIds : CancelledForGood(id) => CancelledForGood(id)']_vars

\* ---- C7 ------------------------------------------------------------------
\* C7: a Timer that was never cancelled, whose expiry has passed, whose
\* webhook deliveries all failed and that has no fire pending or in flight
\* any more, has status completed, exactly one completed Activity, exactly
\* one webhook_failed Activity and exactly one timer_completed broadcast.
FiredAndFailed(id) ==
    /\ Exists(id)
    /\ storeTimers[id].expiresAt <= now
    /\ "cancelled" \notin Range(activities[id])
    /\ "webhook_sent" \notin Range(activities[id])
    /\ webhookRequests[id] >= 1
    /\ PendingOf(id) = {}
    /\ ~FireInFlight(id)
    /\ id \notin Range(resumeQueue)

C7_FailedWebhookCompletesOnce ==
    \A id \in TimerIds :
        FiredAndFailed(id) =>
            /\ Status(id) = "completed"
            /\ Count(activities[id], "completed") = 1
            /\ Count(activities[id], "webhook_failed") = 1
            /\ Count(broadcasts[id], "timer_completed") = 1

\* ---- C8 ------------------------------------------------------------------
\* C8: once a fire of a Timer has started, the Timer's status has been
\* written completed and timer_completed is eventually broadcast for it,
\* whether or not the webhook call ever returns.
C8_FireLeadsToBroadcast ==
    \A id \in TimerIds :
        (webhookRequests[id] > 0) ~>
            (webhookRequests[id] > 0 /\ "timer_completed" \in Range(broadcasts[id]))

\* ---- C9 ------------------------------------------------------------------
\* C9: a Timer is never held back for ever by the pending webhook call of
\* another Timer's fire: again and again no Timer is waiting (a fire event
\* pending, not completed) while another Timer's webhook call is pending,
\* although a pending webhook call need never return; meanwhile a POST of a
\* Timer with a future expiry arms it, and a cancel of any other Timer
\* writes status cancelled at once.
WaitsBehindWebhook(b) ==
    /\ PendingOf(b) # {}
    /\ Status(b) # "completed"
    /\ \E a \in TimerIds : a # b /\ FireInFlight(a)

C9_OtherTimersNotBlocked ==
    /\ []<>(\A b \in TimerIds : ~WaitsBehindWebhook(b))
    /\ [][\A a \in TimerIds, b \in TimerIds, d \in Durations :
             (FireInFlight(a) /\ d >= 1 /\ PostTimer(d) /\ b = NewId) =>
                 (Status(b)' = "active" /\ PendingOf(b)' # {})]_vars
    /\ [][\A a \in TimerIds, b \in TimerIds :
             (a # b /\ FireInFlight(a) /\ Exists(b) /\ DeleteTimer(b)) =>
                 Status(b)' = "cancelled"]_vars

\* C9 witness: the fire of Timer a is still suspended in its webhook call
\* (it has logged nothing yet), and Timer b, armed with a later expiry, has
\* been fired by its timeout in the meantime.
C9_Witness ==
    \E a \in TimerIds, b \in TimerIds :
        /\ a # b
        /\ inflight[a] > 0
        /\ activities[a] = <<>>
        /\ Exists(b)
        /\ storeTimers[a].expiresAt < storeTimers[b].expiresAt
        /\ "created" \in Range(activities[b])
        /\ webhookRequests[b] > 0
        /\ Status(b) = "completed"

\* ---- C10 -----------------------------------------------------------------
\* C10: when the loop of initializeExistingTimers visits a Timer that is
\* active and whose expiry is at or before now, it fires it at once: status
\* completed and the webhook request issued in the same step, no setTimeout
\* and no created Activity for it, and the loop awaits that completeTimer;
\* when the webhook call settles the outcome Activity and the completed
\* Activity are appended and timer_completed is broadcast.
ResumeVisits(id) ==
    \/ /\ Resume
       /\ id \in Range(getActiveTimers(State))
       /\ id \notin Range(resumeQueue')
    \/ /\ \E o \in Outcomes : ResumeWebhookSettles(o)
       /\ id \in Range(resumeQueue)
       /\ id \notin Range(resumeQueue')

C10_ResumeFiresExpiredAtOnce ==
    /\ [][\A id \in TimerIds :
             (/\ ResumeVisits(id)
              /\ Status(id) = "active"
              /\ storeTimers[id].expiresAt <= now) =>
                 /\ resumeWait' = id
                 /\ Status(id)' = "completed"
                 /\ webhookRequests'[id] = webhookRequests[id] + 1
                 /\ PendingOf(id)' = PendingOf(id)
                 /\ timers'[id] = timers[id]
                 /\ activities'[id] = activities[id]
                 /\ broadcasts'[id] = broadcasts[id]]_vars
    /\ [][\A id \in TimerIds, o \in Outcomes :
             (resumeWait = id /\ ResumeWebhookSettles(o)) =>
                 /\ activities'[id] =
                        activities[id] \o
                            <<IF o = "ok" THEN "webhook_sent" ELSE "webhook_failed",
                              "completed">>
                 /\ broadcasts'[id] = Append(broadcasts[id], "timer_completed")]_vars

\* C10 witness: initializeExistingTimers is suspended in the completeTimer of
\* an expired Timer that POST had armed (duration >= 1) and that no timeout
\* has fired.
C10_Witness ==
    /\ resumeWait # 0
    /\ storeTimers[resumeWait].durationSeconds >= 1
    /\ storeTimers[resumeWait].expiresAt <= now
    /\ webhookRequests[resumeWait] = 1
    /\ Status(resumeWait) = "completed"
    /\ PendingOf(resumeWait) # {}

\* ---- C11 -----------------------------------------------------------------
\* C11: when the loop of initializeExistingTimers visits a Timer that is
\* active with its expiry still ahead, the Timer then has exactly one
\* pending fire event, due at its unchanged expiresAt; and a step of the loop
\* adds no pending fire event to a Timer that is completed or cancelled.
C11_ResumeArmsActiveOnce ==
    /\ [][\A id \in TimerIds :
             (/\ ResumeVisits(id)
              /\ Status(id) = "active"
              /\ storeTimers[id].expiresAt > now) =>
                 /\ storeTimers'[id].expiresAt = storeTimers[id].expiresAt
                 /\ Cardinality(PendingOf(id)') = 1
                 /\ \A t \in PendingOf(id)' : t.due = storeTimers[id].expiresAt]_vars
    /\ [][\A id \in TimerIds :
             (/\ Resume \/ \E o \in Outcomes : ResumeWebhookSettles(o)
              /\ Status(id) \in {"completed", "cancelled"}) =>
                 PendingOf(id)' \subseteq PendingOf(id)]_vars

\* ---- C12 -----------------------------------------------------------------
\* C12: when the completeTimer run by a Timer's setTimeout callback, or
\* awaited by the loop of initializeExistingTimers, raises an exception (a
\* send to an observer throws in its broadcast), the process keeps running
\* and every other Timer keeps its pending fire events.
FireRaises(a) ==
    \/ \E o \in Outcomes :
          /\ WebhookSettles(a, o)
          /\ ~awaitedByRoute(State, a)
          /\ completeTimerEnd(State, a, o).thrown
    \/ \E o \in Outcomes :
          /\ resumeWait = a
          /\ ResumeWebhookSettles(o)
          /\ completeTimerEnd(State, a, o).thrown

C12_FireErrorIsContained ==
    [][\A a \in TimerIds :
          FireRaises(a) =>
              /\ ~exited'
              /\ \A b \in TimerIds \ {a} : PendingOf(b)' = PendingOf(b)]_vars

\* ---- C13 -----------------------------------------------------------------
\* C13: whenever events are handed to broadcast, every registered observer
\* that is OPEN and whose own send does not fail receives each of them,
\* whatever happens with the other observers (a send to one of them throws,
\* or one of them is no longer OPEN).
ReceivedAbout(ws, id) ==
    Cardinality({i \in 1..Len(received[ws]) : received[ws][i].timerId = id})

C13_OtherObserversStillReceive ==
    [][\A ws \in Observers, id \in TimerIds :
          (readyState[ws] = "OPEN" /\ ws \notin sendFails) =>
              ReceivedAbout(ws, id)' - ReceivedAbout(ws, id)
                  = Len(broadcasts'[id]) - Len(broadcasts[id])]_vars

\* ---- C14 -----------------------------------------------------------------
\* C14: a POST /api/timers whose durationSeconds is 0 or negative creates
\* no state: no Timer is stored, no timeout is armed, no Activity is
\* appended, no webhook request is issued and no event is broadcast.
C14_NonPositiveDurationRejected ==
    [][\A d \in Durations :
          (d <= 0 /\ PostTimer(d)) =>
              UNCHANGED <<storeTimers, activities, timers, timeouts,
                          webhookRequests, broadcasts, inflight>>]_vars

\* ---- C15 -----------------------------------------------------------------
\* C15: every stored Timer has expiresAt = createdAt + durationSeconds
\* seconds, and no step changes the createdAt, durationSeconds or expiresAt
\* of a stored Timer.
C15_ExpiryFixedAtCreation ==
    /\ [](\A id \in TimerIds :
            Exists(id) =>
                storeTimers[id].expiresAt =
                    storeTimers[id].createdAt
                        + storeTimers[id].durationSeconds * MsPerSecond)
    /\ [][\A id \in TimerIds :
             Exists(id) =>
                 /\ storeTimers'[id].createdAt = storeTimers[id].createdAt
                 /\ storeTimers'[id].durationSeconds = storeTimers[id].durationSeconds
                 /\ storeTimers'[id].expiresAt = storeTimers[id].expiresAt]_vars

\* C15 witness: a Timer of one second that has been re-armed by
\* initializeExistingTimers, fired and then cancelled.
C15_Witness ==
    \E id \in TimerIds :
        /\ Exists(id)
        /\ storeTimers[id].durationSeconds = 1
        /\ Count(activities[id], "created") = 2
        /\ "completed" \in Range(activities[id])
        /\ Status(id) = "cancelled"

\* ---- C16 -----------------------------------------------------------------
\* C16: a step in which a fire of a Timer starts (its webhook request is
\* issued) leaves the Timer completed; and when the webhook call of a fire
\* settles, with a 2xx answer, a non-2xx answer or a transport error alike,
\* the Timer's status is left as it is, is not active, and one completed
\* Activity is appended.
FireSettles(id, o) ==
    \/ WebhookSettles(id, o)
    \/ resumeWait = id /\ ResumeWebhookSettles(o)

C16_CompletedWhateverTheOutcome ==
    /\ [][\A id \in TimerIds :
             webhookRequests'[id] > webhookRequests[id] =>
                 Status(id)' = "completed"]_vars
    /\ [][\A id \in TimerIds, o \in Outcomes :
             FireSettles(id, o) =>
                 /\ Status(id)' = Status(id)
                 /\ Status(id)' # "active"
                 /\ Count(activities'[id], "completed")
                       = Count(activities[id], "completed") + 1]_vars

\* C16 witness: a fire whose delivery failed has ended: the Timer is
\* completed and its log ends with webhook_failed, completed.
C16_Witness ==
    \E id \in TimerIds :
        /\ Status(id) = "completed"
        /\ ~FireInFlight(id)
        /\ Len(activities[id]) >= 2
        /\ activities[id][Len(activities[id]) - 1] = "webhook_failed"
        /\ activities[id][Len(activities[id])] = "completed"

\* ---- C17 -----------------------------------------------------------------
\* C17: every webhook request of a Timer that has settled has exactly one
\* outcome Activity; when the request settles, one webhook_sent is appended
\* if the answer is 2xx and nothing else, one webhook_failed is appended if
\* it is a non-2xx answer or a transport error and nothing else, and in
\* either case completeTimer goes on (the completed Activity follows the
\* outcome Activity).
SettledRequests(id) ==
    webhookRequests[id] - inflight[id] - (IF resumeWait = id THEN 1 ELSE 0)

C17_OneOutcomeActivityPerDispatch ==
    /\ [](\A id \in TimerIds :
            Count(activities[id], "webhook_sent")
                + Count(activities[id], "webhook_failed") = SettledRequests(id))
    /\ [][\A id \in TimerIds, o \in Outcomes :
             FireSettles(id, o) =>
                 /\ Count(activities'[id], "webhook_sent")
                       = Count(activities[id], "webhook_sent")
                            + (IF o = "ok" THEN 1 ELSE 0)
                 /\ Count(activities'[id], "webhook_failed")
                       = Count(activities[id], "webhook_failed")
                            + (IF o = "ok" THEN 0 ELSE 1)
                 /\ Len(activities'[id]) = Len(activities[id]) + 2
                 /\ activities'[id][Len(activities[id]) + 1]
                       \in {"webhook_sent", "webhook_failed"}
                 /\ activities'[id][Len(activities[id]) + 2] = "completed"]_vars

\* C17 witness: one Timer's dispatch was answered 2xx and another Timer's
\* dispatch failed, and neither has a request pending.
C17_Witness ==
    \E a \in TimerIds, b \in TimerIds :
        /\ a # b
        /\ ~FireInFlight(a) /\ ~FireInFlight(b)
        /\ webhookRequests[a] = 1 /\ webhookRequests[b] = 1
        /\ Count(activities[a], "webhook_sent") = 1
        /\ Count(activities[b], "webhook_failed") = 1

\* ---- C18 -----------------------------------------------------------------
\* C18: every testWebhook and sendCustomMessage call that has ended has
\* returned (not raised), and has returned true exactly when its HTTP
\* response was 2xx: false for a non-2xx response and for a transport error.
C18_ToolsReturnHttpSuccess ==
    \A i \in 1..Len(toolResults) :
        /\ ~toolResults[i].result.raised
        /\ toolResults[i].result.value = (toolResults[i].outcome = "ok")

\* C18 witness: a testWebhook call whose fetch failed in transport and a
\* sendCustomMessage call answered non-2xx have both ended.
C18_Witness ==
    /\ \E i \in 1..Len(toolResults) :
          /\ toolResults[i].method = "testWebhook"
          /\ toolResults[i].outcome = "error"
    /\ \E i \in 1..Len(toolResults) :
          /\ toolResults[i].method = "sendCustomMessage"
          /\ toolResults[i].outcome = "non2xx"

\* ---- C19 -----------------------------------------------------------------
\* C19: completeTimer(id) and cancelTimer(id) for an id that no stored Timer
\* has, and DELETE /api/timers/:id for such an id, change nothing: the
\* stored Timers, the Activities, the timeouts and handles, the webhook
\* requests, the broadcasts and what the observers received stay as they
\* are, no call is left suspended, and the process goes on.
Untouched ==
    UNCHANGED <<storeTimers, activities, timers, timeouts, webhookRequests,
                broadcasts, received, inflight, resumeQueue, resumeWait,
                socketVars, exited>>

C19_AbsentIdIsNoOp ==
    /\ [][\A method \in LookupMethods, id \in TimerIds :
             NotFoundCall(method, id) => Untouched]_vars
    /\ [][\A id \in TimerIds :
             (~Exists(id) /\ DeleteTimer(id)) => Untouched]_vars

\* C19 witness: completeTimer and cancelTimer have both been called with an
\* unknown id while a Timer was stored and armed.
C19_Witness ==
    /\ notFoundCalls = LookupMethods
    /\ \E id \in TimerIds : Status(id) = "active" /\ PendingOf(id) # {}

\* ---- C20 -----------------------------------------------------------------
\* C20: when a POST /api/timers with durationSeconds >= 1 has been handled,
\* the new Timer is stored active with currentPings 0, exactly one fire
\* event is pending for it, due at its expiresAt, its Activities are exactly
\* one created Activity, one timer_created event has been handed to
\* broadcast for it, and no webhook request has been issued.
C20_CreateArmsAndAnnouncesOnce ==
    [][\A d \in Durations, id \in TimerIds :
          (d >= 1 /\ PostTimer(d) /\ id = NewId) =>
              /\ Status(id)' = "active"
              /\ storeTimers'[id].durationSeconds = d
              /\ storeTimers'[id].currentPings = 0
              /\ Cardinality(PendingOf(id)') = 1
              /\ \A t \in PendingOf(id)' : t.due = storeTimers'[id].expiresAt
              /\ timers'[id] \in {t.handle : t \in PendingOf(id)'}
              /\ activities'[id] = <<"created">>
              /\ broadcasts'[id] = <<"timer_created">>
              /\ webhookRequests'[id] = 0]_vars

\* C20 witness: a Timer created with a duration of at least one second, not
\* touched by anything since.
C20_Witness ==
    \E id \in TimerIds :
        /\ Status(id) = "active"
        /\ storeTimers[id].durationSeconds >= 1
        /\ storeTimers[id].createdAt = now
        /\ Cardinality(PendingOf(id)) = 1
        /\ activities[id] = <<"created">>
        /\ broadcasts[id] = <<"timer_created">>

\* ---- C21 -----------------------------------------------------------------
\* C21: a DELETE /api/timers/:id issues no webhook request, leaves no call
\* suspended and appends no webhook_sent or webhook_failed Activity; when
\* the Timer is active it becomes cancelled, one cancelled Activity is
\* appended, its handle is dropped, no fire event stays pending for it and
\* timer_cancelled is broadcast.
C21_CancelSkipsWebhook ==
    [][\A id \in TimerIds :
          DeleteTimer(id) =>
              /\ webhookRequests' = webhookRequests
              /\ inflight' = inflight
              /\ \A other \in TimerIds :
                    /\ Count(activities'[other], "webhook_sent")
                          = Count(activities[other], "webhook_sent")
                    /\ Count(activities'[other], "webhook_failed")
                          = Count(activities[other], "webhook_failed")
              /\ Status(id) = "active" =>
                    /\ Status(id)' = "cancelled"
                    /\ activities'[id] = Append(activities[id], "cancelled")
                    /\ broadcasts'[id] = Append(broadcasts[id], "timer_cancelled")
                    /\ timers'[id] = NoHandle
                    /\ PendingOf(id)' = {}]_vars

\* ---- C22 -----------------------------------------------------------------
\* C22: wsClients holds, once each, exactly the sockets that have connected
\* and whose "close" event has not happened (OPEN or CLOSING); a socket that
\* never connected or that has closed is not in it.
C22_RegisteredIffNotClosed ==
    /\ Range(wsClients) = {ws \in Observers : readyState[ws] \in {"OPEN", "CLOSING"}}
    /\ Len(wsClients) = Cardinality(Range(wsClients))

\* C22 witness: one socket has connected and closed, and another, which
\* connected before it closed, is still registered.
C22_Witness ==
    \E gone \in Observers, here \in Observers :
        /\ readyState[gone] = "CLOSED"
        /\ readyState[here] = "OPEN"
        /\ gone < here
        /\ wsClients = <<here>>

\* ---- C23 -----------------------------------------------------------------
\* C23: a socket that has not connected has received nothing, connecting
\* hands it nothing, and whenever a socket receives messages it is OPEN,
\* what it had received stays, and every new message is an event handed to
\* broadcast in that very step: nothing published earlier is sent again.
NewEvents(id) ==
    {broadcasts'[id][k] : k \in (Len(broadcasts[id]) + 1)..Len(broadcasts'[id])}

C23_NoReplayToLateObservers ==
    /\ [](\A ws \in Observers : readyState[ws] = "NONE" => received[ws] = <<>>)
    /\ [][\A ws \in Observers :
             received'[ws] # received[ws] =>
                 /\ readyState[ws] = "OPEN"
                 /\ Len(received'[ws]) > Len(received[ws])
                 /\ SubSeq(received'[ws], 1, Len(received[ws])) = received[ws]
                 /\ \A i \in (Len(received[ws]) + 1)..Len(received'[ws]) :
                       received'[ws][i].type \in NewEvents(received'[ws][i].timerId)
                 /\ \A id \in TimerIds :
                       ReceivedAbout(ws, id)' - ReceivedAbout(ws, id)
                           <= Cardinality(NewEvents(id))]_vars

\* C23 witness: an event was published for a Timer before a socket
\* connected; the socket is OPEN, has received a later event and not the
\* earlier one, and no send has ever failed or skipped a socket (no socket
\* has failed or left the OPEN state).
C23_Witness ==
    \E ws \in Observers, early \in TimerIds, late \in TimerIds :
        /\ readyState[ws] = "OPEN"
        /\ sendFails = {}
        /\ \A other \in Observers : readyState[other] \in {"NONE", "OPEN"}
        /\ broadcasts[early] # <<>>
        /\ ReceivedAbout(ws, early) = 0
        /\ ReceivedAbout(ws, late) > 0

\* ---- C24 -----------------------------------------------------------------
\* C24: for every stored Timer the remaining time is never negative, is
\* expiresAt - now before the expiry and exactly 0 from the expiry on, and
\* never grows from one state to the next; and answering GET /api/timers,
\* which computes it, changes nothing but the answer.
Remaining(id) == getRemainingTime(storeTimers[id])

C24_RemainingTime ==
    /\ [](\A id \in TimerIds :
            Exists(id) =>
                /\ Remaining(id) >= 0
                /\ now >= storeTimers[id].expiresAt => Remaining(id) = 0
                /\ now < storeTimers[id].expiresAt =>
                       Remaining(id) = storeTimers[id].expiresAt - now)
    /\ [][\A id \in TimerIds : Exists(id) => Remaining(id)' <= Remaining(id)]_vars
    /\ [][GetTimers =>
             UNCHANGED <<now, storeTimers, activities, timers, timeouts,
                         webhookRequests, broadcasts, inflight, resumeQueue,
                         resumeWait, socketVars, received, exited>>]_vars

\* C24 witness: a Timer whose expiry lies in the past (created expired, a
\* second ago) is stored, and GET /api/timers has listed a Timer of one
\* second at its expiry with remainingMs 0.
C24_Witness ==
    /\ \E id \in TimerIds : Exists(id) /\ storeTimers[id].expiresAt < now
    /\ \E i \in 1..Len(listed) :
          /\ listed[i].remainingMs = 0
          /\ listed[i].expiresAt = now
          /\ storeTimers[listed[i].id].durationSeconds >= 1

\* ---- C25 -----------------------------------------------------------------
\* C25: for seconds >= 0, formatDuration gives "Ss" below one minute,
\* "Mm Ss" from one minute to below one hour and "Hh Mm Ss" from one hour
\* on, with H = seconds div 3600, M = (seconds mod 3600) div 60 and
\* S = seconds mod 60; 0 gives "0s", 45 gives "45s", 90 gives "1m 30s" and
\* 3661 gives "1h 1m 1s".
ExpectedText(seconds) ==
    LET H == decimal(seconds \div 3600) \o <<"h">>
        M == decimal((seconds % 3600) \div 60) \o <<"m">>
        S == decimal(seconds % 60) \o <<"s">>
    IN IF seconds < 60 THEN S
       ELSE IF seconds < 3600 THEN M \o <<" ">> \o S
       ELSE H \o <<" ">> \o M \o <<" ">> \o S

C25_FormatDurationShape ==
    \A i \in 1..Len(formatted) :
        /\ formatted[i].text = ExpectedText(formatted[i].seconds)
        /\ formatted[i].seconds = 0 => formatted[i].text = <<"0", "s">>
        /\ formatted[i].seconds = 45 => formatted[i].text = <<"4", "5", "s">>
        /\ formatted[i].seconds = 90 =>
               formatted[i].text = <<"1", "m", " ", "3", "0", "s">>
        /\ formatted[i].seconds = 3661 =>
               formatted[i].text = <<"1", "h", " ", "1", "m", " ", "1", "s">>

\* C25 witness: a duration of exactly two hours has been formatted, with
\* its zero minutes and zero seconds shown.
C25_Witness ==
    formatted = <<[seconds |-> 7200,
                   text |-> <<"2", "h", " ", "0", "m", " ", "0", "s">>]>>

\* ---- C26 -----------------------------------------------------------------
\* C26: the Activity log is append-only: in every step the Activities of
\* every Timer are those of before, unchanged and in place, possibly
\* followed by new ones.
C26_ActivityLogAppendOnly ==
    [][\A id \in TimerIds :
           /\ Len(activities'[id]) >= Len(activities[id])
           /\ SubSeq(activities'[id], 1, Len(activities[id])) = activities[id]]_vars

\* C26 witness: a Timer whose log has grown through creation, webhook
\* outcome, completion and a later cancellation.
C26_Witness ==
    \E id \in TimerIds :
        /\ Len(activities[id]) >= 4
        /\ activities[id][1] = "created"
        /\ "completed" \in Range(activities[id])
        /\ activities[id][Len(activities[id])] = "cancelled"

\* ---- C27 -----------------------------------------------------------------
\* C27: every fire of a stored Timer (by its timeout or at once on creation
\* with an expiry already reached) issues exactly one webhook request, for
\* that Timer only; no step issues more than one request for a Timer, and
\* only for a fire that is then awaiting it; the end of a failed delivery
\* issues no further request and arms nothing; and currentPings of every
\* stored Timer stays 0.
C27_OneRequestPerFireNoRetry ==
    /\ [](\A id \in TimerIds :
              Exists(id) => storeTimers[id].currentPings = 0)
    /\ [][\A t \in timeouts :
             TimeoutFires(t) =>
                 webhookRequests' =
                     [webhookRequests EXCEPT ![t.timerId] = @ + 1]]_vars
    /\ [][\A id \in TimerIds :
             (PostTimer(0) /\ id = NewId) =>
                 webhookRequests' = [webhookRequests EXCEPT ![id] = 1]]_vars
    /\ [][\A id \in TimerIds :
             \/ webhookRequests'[id] = webhookRequests[id]
             \/ /\ webhookRequests'[id] = webhookRequests[id] + 1
                /\ FireInFlight(id)']_vars
    /\ [][\A id \in TimerIds, o \in Outcomes \ {"ok"} :
             FireSettles(id, o) =>
                 /\ webhookRequests'[id] = webhookRequests[id]
                 /\ PendingOf(id)' \subseteq PendingOf(id)]_vars

\* C27 witness: a Timer was fired once by its timeout, the delivery failed
\* and the fire has ended: one request was issued and none is in flight.
C27_Witness ==
    \E id \in TimerIds :
        /\ Exists(id)
        /\ storeTimers[id].expiresAt > storeTimers[id].createdAt
        /\ storeTimers[id].currentPings = 0
        /\ webhookRequests[id] = 1
        /\ activities[id] = <<"created", "webhook_failed", "completed">>
        /\ inflight[id] = 0
        /\ resumeWait # id
        /\ PendingOf(id) = {}

\* ---- C28 -----------------------------------------------------------------
\* C28: the answer of GET /api/timers lists exactly the stored Timers that
\* are active when the call is made, each once, each with its stored
\* expiry and a remainingMs that is not negative; a completed or cancelled
\* Timer is not listed.
ListedIds(answer) == {answer[i].id : i \in 1..Len(answer)}

C28_ListActiveIsExact ==
    [][GetTimers =>
          /\ ListedIds(listed') =
                 {id \in TimerIds : Exists(id) /\ Status(id) = "active"}
          /\ Len(listed') = Cardinality(ListedIds(listed'))
          /\ \A i \in 1..Len(listed') :
                 /\ listed'[i].status = "active"
                 /\ listed'[i].expiresAt = storeTimers[listed'[i].id].expiresAt
                 /\ listed'[i].remainingMs >= 0
          /\ \A id \in TimerIds :
                 (Exists(id) /\ Status(id) \in {"completed", "cancelled"}) =>
                     id \notin ListedIds(listed')]_vars

\* C28 witness: the last answer lists one Timer, still active at its expiry
\* and listed with remainingMs 0, while another Timer is stored with a
\* terminal status and is not listed.
C28_Witness ==
    /\ Len(listed) = 1
    /\ Status(listed[1].id) = "active"
    /\ listed[1].expiresAt <= now
    /\ listed[1].remainingMs = 0
    /\ \E id \in TimerIds :
           /\ Exists(id)
           /\ Status(id) \in {"completed", "cancelled"}
           /\ id \notin ListedIds(listed)

\* ---- C29 -----------------------------------------------------------------
\* C29: initializeExistingTimers starts every active Timer without waiting
\* for a webhook delivery: while the completeTimer of an expired Timer it
\* has fired is still awaiting its webhook, no Timer that is active is
\* still waiting for its turn in the loop.
C29_ResumeDoesNotWaitOnWebhook ==
    resumeWait # 0 =>
        \A i \in 1..Len(resumeQueue) : Status(resumeQueue[i]) # "active"

\* ---- C30 -----------------------------------------------------------------
\* C30: in every step, each registered observer that is OPEN (and whose
\* socket accepts the send) receives every event handed to broadcast in
\* that step exactly once, and an observer that is not OPEN receives
\* nothing.
C30_BroadcastReachesEveryOpenObserverOnce ==
    [][\A ws \in Observers :
          (received'[ws] # received[ws] \/ broadcasts' # broadcasts) =>
              /\ (ws \in Range(wsClients) /\ readyState[ws] = "OPEN"
                     /\ ws \notin sendFails) =>
                     \A id \in TimerIds :
                         ReceivedAbout(ws, id)' - ReceivedAbout(ws, id)
                             = Len(broadcasts'[id]) - Len(broadcasts[id])
              /\ readyState[ws] # "OPEN" => received'[ws] = received[ws]]_vars

\* ---- C31 -----------------------------------------------------------------
\* C31: within a fire of a stored Timer, the step that issues the webhook
\* request has written the status completed and does nothing else of the
\* fire (no Activity, no broadcast); the step that appends the completed
\* Activity belongs to a fire whose request was issued before, appends the
\* webhook outcome Activity just before the completed one, leaves no handle
\* stored for the Timer, and hands timer_completed to broadcast as the last
\* event of the Timer.
C31_FireStepsInOrder ==
    /\ [][\A id \in TimerIds :
             webhookRequests'[id] > webhookRequests[id] =>
                 /\ Status(id)' = "completed"
                 /\ activities'[id] = activities[id]
                 /\ broadcasts'[id] = broadcasts[id]]_vars
    /\ [][\A id \in TimerIds :
             Count(activities'[id], "completed") > Count(activities[id], "completed") =>
                 /\ FireInFlight(id)
                 /\ webhookRequests[id] >= 1
                 /\ webhookRequests'[id] = webhookRequests[id]
                 /\ \E w \in {"webhook_sent", "webhook_failed"} :
                        activities'[id] = activities[id] \o <<w, "completed">>
                 /\ timers'[id] = NoHandle
                 /\ broadcasts'[id] = Append(broadcasts[id], "timer_completed")]_vars

\* C31 witness: a Timer armed at its creation has been fired to the end
\* with a delivered webhook, and an observer has received both of its
\* events.
C31_Witness ==
    \E id \in TimerIds, ws \in Observers :
        /\ Status(id) = "completed"
        /\ webhookRequests[id] = 1
        /\ ~FireInFlight(id)
        /\ activities[id] = <<"created", "webhook_sent", "completed">>
        /\ broadcasts[id] = <<"timer_created", "timer_completed">>
        /\ timers[id] = NoHandle
        /\ ReceivedAbout(ws, id) = 2

\* ---- C32 -----------------------------------------------------------------
\* C32: a batch request with an entry that fails validation (one the schema
\* rejects, or one with a durationSeconds that is not positive) creates no
\* state: no Timer is stored or armed, no Activity is appended, nothing is
\* requested or broadcast; a batch of N valid entries stores N new Timers,
\* all active and armed, and appends exactly one batch_created Activity
\* with no Timer reference.
FailsValidation(entry) == ~entry.accepted \/ entry.durationSeconds <= 0

C32_BatchIsAllOrNothing ==
    [][\A entries \in Batches :
          PostBatch(entries) =>
              IF \E i \in 1..Len(entries) : FailsValidation(entries[i])
              THEN UNCHANGED <<storeTimers, activities, nullActivities, timers,
                               timeouts, webhookRequests, broadcasts>>
              ELSE /\ Cardinality({id \in TimerIds : Exists(id)'})
                          = Cardinality({id \in TimerIds : Exists(id)}) + Len(entries)
                   /\ \A id \in TimerIds :
                          (~Exists(id) /\ Exists(id)') =>
                              /\ Status(id)' = "active"
                              /\ Cardinality(PendingOf(id)') = 1
                              /\ activities'[id] = <<"created">>
                   /\ nullActivities' = Append(nullActivities, "batch_created")]_vars

\* ---- C33 -----------------------------------------------------------------
\* C33: when the loop of initializeExistingTimers goes on after a webhook
\* call, a Timer still in its list that is no longer active (cancelled or
\* completed since the list was read) is neither armed nor fired: it gets
\* no new pending fire event, no webhook request and no Activity, and its
\* status stays as it is.
C33_ResumeSkipsTimersNoLongerActive ==
    [][\A o \in Outcomes :
          ResumeWebhookSettles(o) =>
              \A i \in 1..Len(resumeQueue) :
                  Status(resumeQueue[i]) # "active" =>
                      /\ PendingOf(resumeQueue[i])' \subseteq PendingOf(resumeQueue[i])
                      /\ webhookRequests'[resumeQueue[i]] = webhookRequests[resumeQueue[i]]
                      /\ activities'[resumeQueue[i]] = activities[resumeQueue[i]]
                      /\ Status(resumeQueue[i])' = Status(resumeQueue[i])]_vars

\* ---- C34 -----------------------------------------------------------------
\* C34: every Timer has at most one completed Activity, at most one webhook
\* request and at most one timer_completed broadcast.
C34_AtMostOneCompletion ==
    \A id \in TimerIds :
        /\ Count(activities[id], "completed") <= 1
        /\ webhookRequests[id] <= 1
        /\ Count(broadcasts[id], "timer_completed") <= 1

\* ---- C35 -----------------------------------------------------------------
\* C35: whenever no fire is in flight (a cancel is never in flight between
\* two steps), every Timer id that has a Scheduler entry, a handle stored
\* in this.timers or a pending fire event, is that of a stored Timer whose
\* status is active.
C35_SchedulerEntriesAreActive ==
    (\A other \in TimerIds : ~FireInFlight(other)) =>
        \A id \in TimerIds :
            (timers[id] # NoHandle \/ PendingOf(id) # {}) =>
                Exists(id) /\ Status(id) = "active"

\* ---- C36 -----------------------------------------------------------------
\* C36: while the clock advances and due timeout callbacks are dispatched,
\* every stored Timer is eventually completed or cancelled, also when
\* webhook calls never return: again and again every stored Timer has a
\* terminal status (no status ever returns to active, C1).
C36_EveryTimerLeavesActive ==
    []<>(\A id \in TimerIds :
             Exists(id) => Status(id) \in {"completed", "cancelled"})

\* C36 witness: a Timer armed at its creation is completed while the
\* webhook call of its fire has not returned.
C36_Witness ==
    \E id \in TimerIds :
        /\ Status(id) = "completed"
        /\ activities[id] = <<"created">>
        /\ broadcasts[id] = <<"timer_created">>
        /\ inflight[id] = 1
        /\ webhookRequests[id] = 1
        /\ PendingOf(id) = {}

\* ---- C37 -----------------------------------------------------------------
\* C37: for every stored Timer, each completed or cancelled Activity comes
\* after a created Activity in its log, each timer_completed or
\* timer_cancelled broadcast comes after a timer_created broadcast, and a
\* Timer with one of these has both the created Activity and the
\* timer_created broadcast.
ComesAfter(seq, types, first) ==
    \A i \in 1..Len(seq) :
        seq[i] \in types => \E j \in 1..(i - 1) : seq[j] = first

C37_CreatedComesFirst ==
    \A id \in TimerIds :
        /\ ComesAfter(activities[id], {"completed", "cancelled"}, "created")
        /\ ComesAfter(broadcasts[id], {"timer_completed", "timer_cancelled"},
                      "timer_created")

\* ---- C38 -----------------------------------------------------------------
\* C38: every Timer has at most one created Activity and at most one
\* timer_created broadcast.
C38_CreatedAtMostOnce ==
    \A id \in TimerIds :
        /\ Count(activities[id], "created") <= 1
        /\ Count(broadcasts[id], "timer_created") <= 1

\* ---- C39 -----------------------------------------------------------------
\* C39: reading the numbers back from the text formatDuration returns (the
\* number before "h" as H, before "m" as M, before "s" as S, a missing one
\* as 0) gives M < 60, S < 60 and H * 3600 + M * 60 + S equal to the
\* seconds that were formatted.
DigitValue(char) == CHOOSE d \in 0..9 : DigitChars[d + 1] = char

RECURSIVE Scan(_, _, _)
Scan(text, number, read) ==
    IF text = <<>> THEN read
    ELSE IF \E d \in 0..9 : DigitChars[d + 1] = Head(text)
         THEN Scan(Tail(text), number * 10 + DigitValue(Head(text)), read)
         ELSE IF Head(text) = "h"
              THEN Scan(Tail(text), 0, [read EXCEPT !.H = number])
              ELSE IF Head(text) = "m"
                   THEN Scan(Tail(text), 0, [read EXCEPT !.M = number])
                   ELSE IF Head(text) = "s"
                        THEN Scan(Tail(text), 0, [read EXCEPT !.S = number])
                        ELSE Scan(Tail(text), 0, read)

ReadBack(text) == Scan(text, 0, [H |-> 0, M |-> 0, S |-> 0])

C39_FormatDurationIsLossless ==
    \A i \in 1..Len(formatted) :
        /\ ReadBack(formatted[i].text).M < 60
        /\ ReadBack(formatted[i].text).S < 60
        /\ ReadBack(formatted[i].text).H * 3600
               + ReadBack(formatted[i].text).M * 60
               + ReadBack(formatted[i].text).S = formatted[i].seconds

\* C39 witness: one second short of two hours has been formatted, and the
\* text reads back as 1, 59 and 59.
C39_Witness ==
    /\ Len(formatted) = 1
    /\ formatted[1].seconds = 7199
    /\ ReadBack(formatted[1].text) = [H |-> 1, M |-> 59, S |-> 59]

====
